---------------------------- MODULE Spec2Model ----------------------------
(***************************************************************************)
(* A model of python-xbrl (src/xbrl/xbrl.py):                              *)
(*   - XBRLPreprocessedFile.__init__ : the markup repair preprocessor,     *)
(*   - XBRL.get_GAAP                 : the temporal context resolver,      *)
(*   - XBRL.data_processing          : the fact extraction routine,        *)
(*   - XBRL.from_file                : parsing a document into a result,   *)
(*   - XBRL.get_quarterlies/yearlies : the period reports on a result.     *)
(* A character stream is a sequence of one-character strings.  A date or   *)
(* datetime is a record holding a day number, a timedelta a number of days.*)
(***************************************************************************)
EXTENDS Integers, Sequences, FiniteSets, TLC

VARIABLES
    pc,             \* position of the running operation
    err,            \* the exception the operation ended with ("" = none)
    \* ---- XBRLPreprocessedFile.__init__
    xbrl_string,    \* self.fh.read()
    closing_tags,   \* the upper-cased names found in closed form
    tokens,         \* re.split(...) of xbrl_string
    idx,            \* index of the next token / element of the running loop
    last_open_tag,  \* <<>> is None, <<name>> is a pending tag name
    new_fh,         \* what was written to new_fh: chunks [synth, s]
    fh,             \* self.fh after construction
    \* ---- XBRL.get_GAAP
    context_ids,    \* self.context_ids, in insertion order: [id, dates]
    gaap_data,      \* self.gaap_data: concept -> (context id -> value)
    context,        \* the period selector, normalised in place
    end_date,       \* the end_date argument, normalised in place
    ctx_id,         \* <<>> is None, <<id>> is the chosen context id
    gaap_obj,       \* <<>> before the report exists, <<report>> after
    \* ---- XBRL.data_processing
    elements,       \* the matched nodes: [contextref, decimals, text]
    ignore_errors,  \* 0 strict, 1 permissive, 2 logging
    options,        \* [type, no_context]
    data,           \* the mapping under construction; the period report
    result,         \* what data_processing returned
    log,            \* what was written to the logger
    \* ---- XBRL.from_file
    xbrl,           \* the tree soup_maker built from the repaired stream
    dei,            \* self.dei
    custom_data     \* self.custom_data

repairVars == <<xbrl_string, closing_tags, tokens, last_open_tag, new_fh, fh>>
resolveVars == <<context_ids, gaap_data, context, end_date, ctx_id, gaap_obj>>
extractVars == <<elements, ignore_errors, options, data, result, log>>
parseVars == <<xbrl, dei, custom_data>>

vars == <<pc, err, idx, repairVars, resolveVars, extractVars, parseVars>>

----------------------------------------------------------------------------
(* Bounds of the model. *)

\* the input stream is a concatenation of at most MaxPieces pieces
MaxPieces == 3

\* a document holds at most MaxTags context elements
MaxTags == 2

\* a context catalog holds at most MaxContexts entries
MaxContexts == 2

\* a concept matches at most MaxNodes nodes
MaxNodes == 2

----------------------------------------------------------------------------
(* Character streams. *)

\* the characters [a-z0-9_\.] under (?i) that the inputs and upper() produce
NameChars == {"a", "A", "b", "B", "t", "T"}

\* str.upper() on one character
UpperChar(c) ==
    CASE c = "a" -> "A"
      [] c = "b" -> "B"
      [] c = "t" -> "T"
      [] OTHER -> c

\* str.upper()
Upper(s) == [i \in 1..Len(s) |-> UpperChar(s[i])]

\* str.startswith(prefix)
StartsWith(s, prefix) ==
    /\ Len(s) >= Len(prefix)
    /\ SubSeq(s, 1, Len(prefix)) = prefix

\* the number of consecutive characters of set cs in s from position p on
RECURSIVE RunLen(_, _, _)
RunLen(s, p, cs) ==
    IF p <= Len(s) /\ s[p] \in cs THEN 1 + RunLen(s, p + 1, cs) ELSE 0

\* the position of the '>' ending a match of </?[a-z0-9_\.]+> that starts
\* at p, or 0 when no match starts at p
TagMatch(s, p) ==
    IF p > Len(s) \/ s[p] # "<" THEN 0
    ELSE LET q == IF p + 1 <= Len(s) /\ s[p + 1] = "/" THEN p + 2 ELSE p + 1
             n == RunLen(s, q, NameChars)
         IN  IF n > 0 /\ q + n <= Len(s) /\ s[q + n] = ">" THEN q + n ELSE 0

\* the same for </([a-z0-9_\.]+)>
ClosingMatch(s, p) ==
    IF p + 1 > Len(s) \/ s[p] # "<" \/ s[p + 1] # "/" THEN 0
    ELSE LET n == RunLen(s, p + 2, NameChars)
         IN  IF n > 0 /\ p + 2 + n <= Len(s) /\ s[p + 2 + n] = ">"
             THEN p + 2 + n ELSE 0

\* re.findall(r'(?i)</([a-z0-9_\.]+)>', s), scanning from p: the group of
\* every leftmost non-overlapping match
RECURSIVE FindAllClosing(_, _)
FindAllClosing(s, p) ==
    IF p > Len(s) THEN <<>>
    ELSE LET e == ClosingMatch(s, p)
         IN  IF e > 0
             THEN <<SubSeq(s, p + 2, e - 1)>> \o FindAllClosing(s, e + 1)
             ELSE FindAllClosing(s, p + 1)

\* closing_tags = [t.upper() for t in re.findall(...)]
ClosingTags(s) ==
    LET found == FindAllClosing(s, 1)
    IN  [i \in 1..Len(found) |-> Upper(found[i])]

\* a split whose pattern has no capturing group: the delimiters are dropped
RECURSIVE SplitNoCapture(_, _, _)
SplitNoCapture(s, i, p) ==
    IF p > Len(s) THEN <<SubSeq(s, i, Len(s))>>
    ELSE LET e == TagMatch(s, p)
         IN  IF e > 0
             THEN <<SubSeq(s, i, p - 1)>> \o SplitNoCapture(s, e + 1, e + 1)
             ELSE SplitNoCapture(s, i, p + 1)

\* re.split(r'(?i)(</?[a-z0-9_\.]+>)', s): i is where the current text run
\* starts, p the scan position; the text runs alternate with the matches
RECURSIVE Split(_, _, _)
Split(s, i, p) ==
    IF p > Len(s) THEN <<SubSeq(s, i, Len(s))>>
    ELSE LET e == TagMatch(s, p)
         IN  IF e > 0
             THEN <<SubSeq(s, i, p - 1), SubSeq(s, p, e)>>
                      \o Split(s, e + 1, e + 1)
             ELSE Split(s, i, p + 1)

\* re.findall(r'(?i)<*>', token), scanning from p: every '>' together with
\* the run of '<' right before it
RECURSIVE FindAllTagName(_, _)
FindAllTagName(token, p) ==
    IF p > Len(token) THEN <<>>
    ELSE LET n == RunLen(token, p, {"<"})
         IN  IF p + n <= Len(token) /\ token[p + n] = ">"
             THEN <<SubSeq(token, p, p + n)>>
                      \o FindAllTagName(token, p + n + 1)
             ELSE FindAllTagName(token, p + 1)

\* x in list
InList(x, list) == \E i \in 1..Len(list) : list[i] = x

\* the concatenation of a sequence of streams
RECURSIVE Concat(_)
Concat(ss) == IF ss = <<>> THEN <<>> ELSE Head(ss) \o Concat(Tail(ss))

----------------------------------------------------------------------------
(* XBRLPreprocessedFile.__init__ *)

\* the classification of a token at the head of the loop body
IsClosingTag(token)    == StartsWith(token, <<"<", "/">>)
IsProcessingTag(token) == StartsWith(token, <<"<", "?">>)
IsCdata(token)         == StartsWith(token, <<"<", "!">>)
IsTag(token)           == StartsWith(token, <<"<">>) /\ ~IsCdata(token)
IsOpenTag(token) ==
    IsTag(token) /\ ~IsClosingTag(token) /\ ~IsProcessingTag(token)

\* new_fh.write("</%s>" % last_open_tag)
CloseTagFor(name) == <<"<", "/">> \o name \o <<">">>

\* the chunks the `if is_tag:` block writes for a token
SynthChunks(token, pending) ==
    IF IsTag(token) /\ pending # <<>>
    THEN << [synth |-> TRUE, s |-> CloseTagFor(pending[1])] >>
    ELSE <<>>

\* an `if is_tag:` block that leaves last_open_tag as it was
PendingAfterTagKeep(token, pending) == pending

\* last_open_tag after the `if is_tag:` block
PendingAfterTag(token, pending) ==
    IF IsTag(token) THEN <<>> ELSE pending

\* whether [0] of the findall in the `if is_open_tag:` block has no element
TagNameMissing(token) ==
    IsOpenTag(token) /\ FindAllTagName(token, 1) = <<>>

\* last_open_tag after the `if is_open_tag:` block
PendingAfterOpen(token, pending, closing) ==
    IF IsOpenTag(token)
    THEN LET tag_name == FindAllTagName(token, 1)[1]
         IN  IF ~InList(Upper(tag_name), closing)
             THEN <<tag_name>> ELSE pending
    ELSE pending

\* what new_fh holds, as one stream
Written(chunks) == Concat([i \in 1..Len(chunks) |-> chunks[i].s])

\* the pieces an input stream is made of
Pieces ==
    { <<"<", "a", ">">>, <<"<", "/", "a", ">">>, <<"<", "A", ">">>,
      <<"<", "b", ">">>, <<"t">>, <<"<">>, <<">">>, <<"<", "?">>,
      <<"<", "!">> }

PieceSeqs == UNION { [1..n -> Pieces] : n \in 0..MaxPieces }

Inputs == { Concat(ps) : ps \in PieceSeqs }

\* no preprocessor is running
IdleRepair ==
    /\ xbrl_string = <<>>
    /\ closing_tags = <<>>
    /\ tokens = <<>>
    /\ last_open_tag = <<>>
    /\ new_fh = <<>>
    /\ fh = <<>>

\* no query is running
IdleResolve ==
    /\ context_ids = <<>>
    /\ gaap_data = <<>>
    /\ context = [kind |-> "str", name |-> "", days |-> 0]
    /\ end_date = [type |-> "none", day |-> 0]
    /\ ctx_id = <<>>
    /\ gaap_obj = <<>>

\* no extraction is running
IdleExtract ==
    /\ elements = <<>>
    /\ ignore_errors = 0
    /\ options = [type |-> "Number", no_context |-> FALSE]
    /\ data = <<>>
    /\ result = [kind |-> "none", text |-> <<>>, data |-> <<>>]
    /\ log = <<>>

\* no document is being parsed
IdleParse ==
    /\ xbrl = <<>>
    /\ dei = <<>>
    /\ custom_data = <<>>

InitRepair ==
    /\ pc = "read"
    /\ err = ""
    /\ xbrl_string \in Inputs
    /\ closing_tags = <<>>
    /\ tokens = <<>>
    /\ idx = 0
    /\ last_open_tag = <<>>
    /\ new_fh = <<>>
    /\ fh = <<>>
    /\ IdleResolve
    /\ IdleExtract
    /\ IdleParse

\* lines 711-721: read the stream, collect the closing tags, tokenize
Tokenize ==
    /\ pc = "read"
    /\ closing_tags' = ClosingTags(xbrl_string)
    /\ tokens' = Split(xbrl_string, 1, 1)
    /\ idx' = 1
    /\ last_open_tag' = <<>>
    /\ new_fh' = <<>>
    /\ pc' = "tokens"
    /\ UNCHANGED <<err, xbrl_string, fh, resolveVars, extractVars, parseVars>>

\* lines 722-737: one pass of the loop body
ProcessToken ==
    /\ pc = "tokens"
    /\ idx <= Len(tokens)
    /\ LET token == tokens[idx]
           synth == SynthChunks(token, last_open_tag)
           pend  == PendingAfterTag(token, last_open_tag)
       IN  \/ /\ TagNameMissing(token)
              /\ err' = "IndexError"
              /\ pc' = "raised"
              /\ new_fh' = new_fh \o synth
              /\ last_open_tag' = pend
              /\ idx' = idx
           \/ /\ ~TagNameMissing(token)
              /\ last_open_tag' = PendingAfterOpen(token, pend, closing_tags)
              /\ new_fh' = (new_fh \o synth)
                               \o << [synth |-> FALSE, s |-> token] >>
              /\ idx' = idx + 1
              /\ UNCHANGED <<pc, err>>
    /\ UNCHANGED <<xbrl_string, closing_tags, tokens, fh, resolveVars,
                   extractVars, parseVars>>

\* lines 738-739: self.fh = new_fh
Finish ==
    /\ pc = "tokens"
    /\ idx > Len(tokens)
    /\ fh' = Written(new_fh)
    /\ pc' = "repaired"
    /\ UNCHANGED <<err, xbrl_string, closing_tags, tokens, idx,
                   last_open_tag, new_fh, resolveVars, extractVars, parseVars>>

NextRepair == Tokenize \/ ProcessToken \/ Finish

SpecRepair == InitRepair /\ [][NextRepair]_vars

----------------------------------------------------------------------------
(* The preprocessor as a function of the stream: repair(s). *)

\* the loop of lines 722-737 from token i on
RECURSIVE RepairFrom(_, _, _, _, _)
RepairFrom(toks, i, pending, closing, out) ==
    IF i > Len(toks) THEN [raised |-> FALSE, out |-> out]
    ELSE IF TagNameMissing(toks[i]) THEN [raised |-> TRUE, out |-> <<>>]
    ELSE LET synth == SynthChunks(toks[i], pending)
             pend  == PendingAfterTag(toks[i], pending)
         IN  RepairFrom(toks, i + 1,
                        PendingAfterOpen(toks[i], pend, closing), closing,
                        (out \o Written(synth)) \o toks[i])

Repair(s) == RepairFrom(Split(s, 1, 1), 1, <<>>, ClosingTags(s), <<>>)

\* the state machine and the function are the same preprocessor
RepairAgrees ==
    /\ pc = "repaired" => Repair(xbrl_string) = [raised |-> FALSE, out |-> fh]
    /\ (pc = "raised" /\ err = "IndexError") => Repair(xbrl_string).raised

----------------------------------------------------------------------------
(* Claims about the preprocessor (SpecRepair). *)

\* a token that is an open tag <name> of the tokenizer's pattern
IsNamedOpenTag(token) ==
    /\ Len(token) > 0
    /\ TagMatch(token, 1) = Len(token)
    /\ token[2] # "/"

\* the name of such an open tag
OpenTagName(token) == SubSeq(token, 2, Len(token) - 1)

IsOriginal(chunk) == ~chunk.synth
IsSynth(chunk) == chunk.synth

\* C1: repair is idempotent: repairing the repaired stream gives the
\* repaired stream again.
C1_RepairIdempotent ==
    pc = "repaired" => Repair(fh) = [raised |-> FALSE, out |-> fh]

\* C2: repair is insertion-only: the written chunks that are not
\* synthesized are the input's tokens, unaltered and in order; deleting the
\* synthesized close tags from the output gives back the input; the output
\* is never shorter than the input.
C2_RepairInsertionOnly ==
    pc = "repaired" =>
        /\ fh = Written(new_fh)
        /\ Written(SelectSeq(new_fh, IsOriginal)) = xbrl_string
        /\ LET kept == SelectSeq(new_fh, IsOriginal)
           IN  [i \in 1..Len(kept) |-> kept[i].s] = tokens
        /\ Len(fh) >= Len(xbrl_string)

\* C2 witness: a repaired stream that holds a synthesized close tag between
\* the input's tokens.
C2_Witness ==
    /\ pc = "repaired"
    /\ SelectSeq(new_fh, IsSynth) # <<>>
    /\ Len(fh) > Len(xbrl_string)
    /\ Len(tokens) >= 5

\* C3: repair cannot fail: the preprocessor never ends with an error.
C3_RepairNeverRaises == pc # "raised" /\ err = ""

\* C4: close tags are synthesized only for open tags whose case-folded name
\* is absent from the known-closed set, each is the matching </name>, and a
\* stream whose opened names all occur in closed form is returned unchanged.
C4_RepairClosesOnlyUnclosed ==
    pc = "repaired" =>
        /\ \A i \in 1..Len(new_fh) :
              new_fh[i].synth =>
                  \E j \in 1..Len(tokens) :
                      /\ IsNamedOpenTag(tokens[j])
                      /\ ~InList(Upper(OpenTagName(tokens[j])), closing_tags)
                      /\ new_fh[i].s = CloseTagFor(OpenTagName(tokens[j]))
        /\ (\A j \in 1..Len(tokens) :
               IsNamedOpenTag(tokens[j]) =>
                   InList(Upper(OpenTagName(tokens[j])), closing_tags))
               => fh = xbrl_string

\* what a step of the pass appends to new_fh
Appended == SubSeq(new_fh', Len(new_fh) + 1, Len(new_fh'))

\* one pass of the loop body keeps the discipline of the pending slot
PendingSlotStep ==
    (pc = "tokens" /\ idx <= Len(tokens)) =>
        LET token == tokens[idx]
            close == [synth |-> TRUE, s |-> CloseTagFor(last_open_tag[1])]
            emit  == [synth |-> FALSE, s |-> token]
        IN  /\ SubSeq(new_fh', 1, Len(new_fh)) = new_fh
            /\ (IsTag(token) /\ last_open_tag # <<>>) =>
                  /\ Appended \in { <<close>>, <<close, emit>> }
                  /\ pc' = "tokens" => Appended = <<close, emit>>
                  /\ last_open_tag' # <<>> =>
                        IsOpenTag(token) /\ pc' = "tokens"
            /\ (IsTag(token) /\ last_open_tag = <<>>) =>
                  /\ Appended \in { <<>>, <<emit>> }
                  /\ pc' = "tokens" => Appended = <<emit>>
            /\ ~IsTag(token) =>
                  /\ Appended = <<emit>>
                  /\ last_open_tag' = last_open_tag
                  /\ pc' = "tokens"

\* C16: at most one open tag is pending at any time; a token the pass takes
\* for a tag (open, close or processing instruction) that is processed while
\* a tag is pending has exactly one synthesized close tag written right
\* before it, and the slot is emptied before the token itself may fill it;
\* text tokens and comment/CDATA markers write no close tag and leave the
\* slot as it is.
C16_PendingSlotDiscipline ==
    [](Len(last_open_tag) <= 1) /\ [][PendingSlotStep]_vars

\* C16 witness: a tag became pending, a text token was written after it, and
\* the next tag had one synthesized close tag written right before it.
C16_Witness ==
    /\ pc = "tokens"
    /\ \E i \in 3..(Len(new_fh) - 1) :
          /\ new_fh[i].synth
          /\ ~new_fh[i + 1].synth /\ IsTag(new_fh[i + 1].s)
          /\ ~new_fh[i - 1].synth /\ new_fh[i - 1].s = <<"t">>
          /\ IsOpenTag(new_fh[i - 2].s)
          /\ Cardinality({ j \in 1..Len(new_fh) : new_fh[j].synth }) = 1

----------------------------------------------------------------------------
(* XBRL.get_GAAP *)

\* datetime.date.today(), as a day number
Today == 100

\* a datetime.datetime at midnight of a day; a datetime.date of a day.  The
\* two never compare equal in Python, as the two records never do.
DateTime(d) == [type |-> "datetime", day |-> d]
Date(d)     == [type |-> "date", day |-> d]

\* the selector after normalisation: the string "instant" or a timedelta
Instant      == [kind |-> "str", name |-> "instant", days |-> 0]
TimeDelta(d) == [kind |-> "timedelta", name |-> "", days |-> d]

\* the days of the fixed selectors and of timedelta(weeks=1)
QuarterDays == 90
YearDays    == 360
WeekDays    == 7

\* the dates the contexts of a catalog are made of
StartDays == {0 - 260, 2, 9, 10}
EndDays   == {99, 100}

\* a catalog entry's dates: (instant,) or (start, end)
CtxDates ==
    { <<DateTime(e)>> : e \in EndDays }
        \cup { <<DateTime(b), DateTime(e)>> : b \in StartDays, e \in EndDays }

\* the id of the n-th context of the document
CtxId(n) == <<"c", n>>

\* the catalogs: dicts of at most MaxContexts entries, in insertion order
Catalogs ==
    UNION { { [i \in 1..n |-> [id |-> CtxId(i), dates |-> ds[i]]] :
                ds \in [1..n -> CtxDates] } : n \in 0..MaxContexts }

\* the selectors a caller passes
Selectors ==
    { [kind |-> "str", name |-> nm, days |-> 0] :
          nm \in {"quarter", "year", "instant", "bogus"} }
        \cup { TimeDelta(QuarterDays) }
        \cup { [kind |-> "int", name |-> "", days |-> QuarterDays + 1] }

\* the end_date arguments a caller passes: None, a string, a datetime
EndDateArgs ==
    { [type |-> "none", day |-> 0], [type |-> "badstr", day |-> 0],
      [type |-> "str", day |-> 100] }
        \cup { DateTime(e) : e \in EndDays }

\* the parsed facts: concept -> (context id -> value)
GaapDatas ==
    { [k \in {"assets", "liabilities"} |->
          IF k = "assets" THEN (CtxId(1) :> 5) ELSE <<>>],
      [k \in {"assets", "liabilities"} |->
          IF k = "assets" THEN (CtxId(1) :> 5) @@ (CtxId(2) :> 7)
          ELSE (CtxId(2) :> 3)] }

InitResolve ==
    /\ pc = "get_gaap"
    /\ err = ""
    /\ idx = 0
    /\ context_ids \in Catalogs
    /\ gaap_data \in GaapDatas
    /\ context \in Selectors
    /\ end_date \in EndDateArgs
    /\ ctx_id = <<>>
    /\ gaap_obj = <<>>
    /\ IdleRepair
    /\ IdleExtract
    /\ IdleParse

\* lines 50-53: whether strptime(end_date, "%Y%m%d") raises
EndDateInvalid(e) == e.type = "badstr"

\* lines 50-53: end_date after the defaulting and the parsing
NormEndDate(e) ==
    CASE e.type = "none" -> Date(Today)
      [] e.type = "str"  -> DateTime(e.day)
      [] OTHER           -> e

\* lines 68-72: whether int(context) raises
SelectorInvalid(c) ==
    c.kind = "str" /\ c.name \notin {"quarter", "year", "instant"}

\* lines 55-72: context after the normalisation
NormContext(c) ==
    CASE c.kind = "str" /\ c.name = "quarter" -> TimeDelta(QuarterDays)
      [] c.kind = "str" /\ c.name = "year"    -> TimeDelta(YearDays)
      [] c.kind = "str" /\ c.name = "instant" -> Instant
      [] c.kind = "timedelta"                 -> c
      [] OTHER                                -> TimeDelta(c.days)

\* lines 47-79: the arguments are normalised, or the call raises ValueError
GetGAAPStart ==
    /\ pc = "get_gaap"
    /\ \/ /\ EndDateInvalid(end_date) \/ SelectorInvalid(context)
          /\ pc' = "raised"
          /\ err' = "ValueError"
          /\ UNCHANGED <<context, end_date, idx>>
       \/ /\ ~EndDateInvalid(end_date)
          /\ ~SelectorInvalid(context)
          /\ end_date' = NormEndDate(end_date)
          /\ context' = NormContext(context)
          /\ idx' = 1
          /\ pc' = "scan"
          /\ err' = ""
    /\ UNCHANGED <<context_ids, gaap_data, ctx_id, gaap_obj, repairVars,
                   extractVars, parseVars>>

\* line 81: the instant test
InstantMatches(c, ctx_dates, e) ==
    c = Instant /\ Len(ctx_dates) = 1 /\ ctx_dates[1] = e

\* line 86: the comparison of the str "instant" with a timedelta
CompareRaises(c, ctx_dates) ==
    Len(ctx_dates) = 2 /\ c.kind # "timedelta"

\* lines 84-87: the duration test
DurationMatches(c, ctx_dates, e) ==
    /\ Len(ctx_dates) = 2
    /\ c.days <= ctx_dates[2].day - ctx_dates[1].day
    /\ ctx_dates[2].day - ctx_dates[1].day <= c.days + WeekDays
    /\ ctx_dates[2] = e

\* a loop without its break statements: the last match wins
AfterEntryNoBreak(matched) == "scan"

\* lines 83, 89: break on a match, else go on with the next entry
AfterEntry(matched) == IF matched THEN "found" ELSE "scan"

\* lines 80-89: one entry of the catalog
GetGAAPScan ==
    /\ pc = "scan"
    /\ idx <= Len(context_ids)
    /\ LET cid       == context_ids[idx].id
           ctx_dates == context_ids[idx].dates
       IN  \/ /\ InstantMatches(context, ctx_dates, end_date)
              /\ ctx_id' = <<cid>>
              /\ pc' = AfterEntry(TRUE)
              /\ idx' = idx + 1
              /\ err' = ""
           \/ /\ ~InstantMatches(context, ctx_dates, end_date)
              /\ CompareRaises(context, ctx_dates)
              /\ pc' = "raised"
              /\ err' = "TypeError"
              /\ UNCHANGED <<ctx_id, idx>>
           \/ /\ ~InstantMatches(context, ctx_dates, end_date)
              /\ ~CompareRaises(context, ctx_dates)
              /\ DurationMatches(context, ctx_dates, end_date)
              /\ ctx_id' = <<cid>>
              /\ pc' = AfterEntry(TRUE)
              /\ idx' = idx + 1
              /\ err' = ""
           \/ /\ ~InstantMatches(context, ctx_dates, end_date)
              /\ ~CompareRaises(context, ctx_dates)
              /\ ~DurationMatches(context, ctx_dates, end_date)
              /\ pc' = AfterEntry(FALSE)
              /\ idx' = idx + 1
              /\ UNCHANGED <<ctx_id, err>>
    /\ UNCHANGED <<context_ids, gaap_data, context, end_date, gaap_obj,
                   repairVars, extractVars, parseVars>>

\* line 80: the catalog is exhausted
GetGAAPScanEnd ==
    /\ pc = "scan"
    /\ idx > Len(context_ids)
    /\ pc' = "found"
    /\ UNCHANGED <<err, idx, resolveVars, repairVars, extractVars, parseVars>>

\* lines 91-92: raise Exception("no context id matched")
GetGAAPNoMatch ==
    /\ pc = "found"
    /\ ctx_id = <<>>
    /\ pc' = "raised"
    /\ err' = "NoContextMatch"
    /\ UNCHANGED <<idx, resolveVars, repairVars, extractVars, parseVars>>

\* line 96: k_data.get(ctx_id, 0.)
GetOrZero(k_data, cid) == IF cid \in DOMAIN k_data THEN k_data[cid] ELSE 0

\* a lookup that enters the default into the mapping, as setdefault does
AfterSetDefault(k_data, cid) ==
    IF cid \in DOMAIN k_data THEN k_data ELSE (cid :> 0) @@ k_data

\* lines 96, 109, 121: the mapping after k_data.get(cid), which enters
\* nothing
AfterGet(k_data, cid) == k_data

\* lines 94-99: the report is built and returned
GetGAAPReport ==
    /\ pc = "found"
    /\ ctx_id # <<>>
    /\ gaap_obj' = << [k \in DOMAIN gaap_data |->
                          GetOrZero(gaap_data[k], ctx_id[1])] >>
    /\ gaap_data' = [k \in DOMAIN gaap_data |->
                        AfterGet(gaap_data[k], ctx_id[1])]
    /\ pc' = "reported"
    /\ UNCHANGED <<err, idx, context_ids, context, end_date, ctx_id,
                   repairVars, extractVars, parseVars>>

NextResolve ==
    \/ GetGAAPStart
    \/ GetGAAPScan
    \/ GetGAAPScanEnd
    \/ GetGAAPNoMatch
    \/ GetGAAPReport

SpecResolve == InitResolve /\ [][NextResolve]_vars

----------------------------------------------------------------------------
(* Claims about the resolver (SpecResolve). *)

\* the call has ended: it returned a report or raised
ResolveEnded == pc \in {"reported", "raised"}

\* the arguments are a valid selector and a well-formed end date
ValidArgs == ~SelectorInvalid(context) /\ ~EndDateInvalid(end_date)

\* the span of a duration entry, in days
Span(entry) == entry.dates[2].day - entry.dates[1].day

\* the entries that qualify for the instant selector and end date e
InstantQualifying(e) ==
    { i \in 1..Len(context_ids) :
        /\ Len(context_ids[i].dates) = 1
        /\ context_ids[i].dates[1] = e }

\* the entries that qualify for a duration selector of d days and end date e
DurationQualifying(d, e) ==
    { i \in 1..Len(context_ids) :
        /\ Len(context_ids[i].dates) = 2
        /\ context_ids[i].dates[2] = e
        /\ d <= Span(context_ids[i])
        /\ Span(context_ids[i]) <= d + 7 }

\* the entries that qualify for the selector of the call
Qualifying ==
    IF context = Instant THEN InstantQualifying(end_date)
    ELSE DurationQualifying(context.days, end_date)

\* the least element of a non-empty set of positions
First(S) == CHOOSE i \in S : \A j \in S : i <= j

\* C5: with the instant selector and a catalog that holds an instant entry
\* dated endDate, the call returns the report of the first such entry,
\* whatever duration entries the catalog holds.
C5_InstantResolution ==
    (ResolveEnded /\ context = Instant /\ ~EndDateInvalid(end_date)
        /\ InstantQualifying(end_date) # {}) =>
        /\ pc = "reported"
        /\ ctx_id = <<context_ids[First(InstantQualifying(end_date))].id>>

\* C6: with a duration selector of d days, the call resolves to the first
\* entry in catalog order that is a duration ending on endDate with a span
\* of d to d + 7 days: no earlier entry qualifies, no later one is chosen.
C6_DurationResolution ==
    (ResolveEnded /\ context.kind = "timedelta"
        /\ DurationQualifying(context.days, end_date) # {}) =>
        /\ pc = "reported"
        /\ ctx_id =
              <<context_ids[First(DurationQualifying(context.days,
                                                     end_date))].id>>

\* C6 witness: a duration query answered with the first entry of a catalog
\* in which a later entry qualifies as well.
C6_Witness ==
    /\ pc = "reported"
    /\ context.kind = "timedelta"
    /\ Cardinality(DurationQualifying(context.days, end_date)) >= 2
    /\ ctx_id = <<context_ids[1].id>>

\* C7: for a valid selector the call fails with NoContextMatchError exactly
\* when no entry qualifies, then produces no report, and fails with no
\* other kind of error.
C7_NoMatchExactly ==
    (ResolveEnded /\ ValidArgs) =>
        /\ (pc = "raised") <=> (Qualifying = {})
        /\ pc = "raised" => (err = "NoContextMatch" /\ gaap_obj = <<>>)

----------------------------------------------------------------------------
(* XBRL.data_processing *)

Digits == {"0", "1", "2", "3", "4", "5", "6", "7", "8", "9"}

DigitVal(c) ==
    CASE c = "0" -> 0 [] c = "1" -> 1 [] c = "2" -> 2 [] c = "3" -> 3
      [] c = "4" -> 4 [] c = "5" -> 5 [] c = "6" -> 6 [] c = "7" -> 7
      [] c = "8" -> 8 [] c = "9" -> 9

\* a literal without its sign
Unsigned(s) == IF Len(s) > 0 /\ s[1] \in {"-", "+"} THEN Tail(s) ELSE s

\* whether int(s) succeeds: an optional sign and one digit or more
IsIntLiteral(s) ==
    /\ Len(Unsigned(s)) > 0
    /\ \A i \in 1..Len(Unsigned(s)) : Unsigned(s)[i] \in Digits

\* is_number(s), whether float(s) succeeds: an optional sign, digits with
\* at most one point among them, one digit at least (on the characters of
\* the model, which hold no exponent, inf or nan)
IsNumber(s) ==
    LET u == Unsigned(s)
    IN  /\ \A i \in 1..Len(u) : u[i] \in Digits \cup {"."}
        /\ Cardinality({ i \in 1..Len(u) : u[i] = "." }) <= 1
        /\ \E i \in 1..Len(u) : u[i] \in Digits

\* the number a sequence of digits writes
RECURSIVE DigitsValue(_)
DigitsValue(ds) ==
    IF ds = <<>> THEN 0
    ELSE 10 * DigitsValue(SubSeq(ds, 1, Len(ds) - 1)) + DigitVal(ds[Len(ds)])

IsDigit(c) == c \in Digits

\* int(s), for a literal int accepts
IntOf(s) ==
    IF Len(s) > 0 /\ s[1] = "-" THEN 0 - DigitsValue(Unsigned(s))
    ELSE DigitsValue(Unsigned(s))

\* the value stored by `int(element.text)`
IntVal(s) == [type |-> "int", num |-> IntOf(s), scale |-> 0]

\* a float() that drops the fractional part of the text
FloatValTruncated(s) ==
    LET u == Unsigned(s)
        p == IF \E i \in 1..Len(u) : u[i] = "."
             THEN CHOOSE i \in 1..Len(u) : u[i] = "." ELSE Len(u) + 1
        n == DigitsValue(SubSeq(u, 1, p - 1))
    IN  [type |-> "float",
         num |-> IF Len(s) > 0 /\ s[1] = "-" THEN 0 - n ELSE n,
         scale |-> 0]

\* the value stored by `float(element.text)`: num / 10^scale
FloatVal(s) ==
    LET u == Unsigned(s)
        p == IF \E i \in 1..Len(u) : u[i] = "."
             THEN CHOOSE i \in 1..Len(u) : u[i] = "." ELSE Len(u) + 1
        n == DigitsValue(SelectSeq(u, IsDigit))
    IN  [type |-> "float",
         num |-> IF Len(s) > 0 /\ s[1] = "-" THEN 0 - n ELSE n,
         scale |-> IF p > Len(u) THEN 0 ELSE Len(u) - p]

\* the texts, contextref and decimals attributes of the matched nodes;
\* <<>> is an absent attribute, <<v>> one of value v
Texts == { <<"1", "0", "0", "0">>, <<"1", "2", ".", "5">>, <<"a">> }

ContextRefs == { <<>>, << <<"c", 1>> >>, << <<"c", 2>> >> }

DecimalsAttrs ==
    { <<>>, << <<"2">> >>, << <<"0">> >>, << <<"I", "N", "F">> >> }

Nodes == [contextref : ContextRefs, decimals : DecimalsAttrs, text : Texts]

NodeLists == UNION { [1..n -> Nodes] : n \in 0..MaxNodes }

\* the options of the callers: parse_DEI (String, Number without context)
\* and the default of line 666
OptionSets ==
    { [type |-> "String", no_context |-> TRUE],
      [type |-> "Number", no_context |-> TRUE],
      [type |-> "Number", no_context |-> FALSE] }

NoResult == [kind |-> "none", text |-> <<>>, data |-> <<>>]

InitExtract ==
    /\ pc = "data_processing"
    /\ err = ""
    /\ idx = 0
    /\ elements \in NodeLists
    /\ ignore_errors \in {0, 1, 2}
    /\ options \in OptionSets
    /\ data = <<>>
    /\ result = NoResult
    /\ log = <<>>
    /\ IdleRepair
    /\ IdleResolve
    /\ IdleParse

\* lines 669-675: whether the call returns the first element's text
ReturnsFirstText(els, opts) ==
    IF opts.type = "String" /\ Len(els) > 0 THEN TRUE
    ELSE opts.no_context /\ Len(els) > 0 /\ IsNumber(els[1].text)

\* lines 666-677: the early returns, or the start of the loop
DataProcessingStart ==
    /\ pc = "data_processing"
    /\ \/ /\ ReturnsFirstText(elements, options)
          /\ result' = [kind |-> "text", text |-> elements[1].text,
                        data |-> <<>>]
          /\ pc' = "returned"
          /\ UNCHANGED <<data, idx>>
       \/ /\ ~ReturnsFirstText(elements, options)
          /\ data' = <<>>
          /\ idx' = 1
          /\ pc' = "elements"
          /\ UNCHANGED result
    /\ UNCHANGED <<err, elements, ignore_errors, options, log, repairVars,
                   resolveVars, parseVars>>

\* lines 681-690: what the try block does with an element: it raises (exc),
\* stores a value (store), or does nothing (skip)
TryElement(element) ==
    IF element.contextref = <<>>
    THEN [kind |-> "exc", exc |-> "KeyError: contextref"]
    ELSE IF ~IsNumber(element.text) THEN [kind |-> "skip"]
    ELSE IF element.decimals = <<>>
    THEN [kind |-> "exc", exc |-> "KeyError: decimals"]
    ELSE IF ~IsIntLiteral(element.decimals[1])
    THEN [kind |-> "exc", exc |-> "ValueError: int(decimals)"]
    ELSE IF IntOf(element.decimals[1]) > 0
    THEN [kind |-> "store", ctx |-> element.contextref[1],
          val |-> FloatVal(element.text)]
    ELSE IF ~IsIntLiteral(element.text)
    THEN [kind |-> "exc", exc |-> "ValueError: int(text)"]
    ELSE [kind |-> "store", ctx |-> element.contextref[1],
          val |-> IntVal(element.text)]

\* an except block that raises under no policy
OnErrorNeverRaise(ignore) == IF ignore = 2 THEN "log" ELSE "pass"

\* lines 692-697: the except block
OnError(ignore) ==
    IF ignore = 0 THEN "raise" ELSE IF ignore = 2 THEN "log" ELSE "pass"

\* lines 679-697: one element of the loop
DataProcessingElement ==
    /\ pc = "elements"
    /\ idx <= Len(elements)
    /\ LET element == elements[idx]
           try == TryElement(element)
       IN  \/ /\ try.kind = "store"
              /\ data' = (try.ctx :> try.val) @@ data
              /\ idx' = idx + 1
              /\ UNCHANGED <<pc, err, log>>
           \/ /\ try.kind = "skip"
              /\ idx' = idx + 1
              /\ UNCHANGED <<pc, err, log, data>>
           \/ /\ try.kind = "exc"
              /\ OnError(ignore_errors) = "raise"
              /\ pc' = "raised"
              /\ err' = "XBRLException"
              /\ UNCHANGED <<idx, log, data>>
           \/ /\ try.kind = "exc"
              /\ OnError(ignore_errors) = "log"
              /\ log' = Append(log, [exc |-> try.exc, text |-> element.text])
              /\ idx' = idx + 1
              /\ UNCHANGED <<pc, err, data>>
           \/ /\ try.kind = "exc"
              /\ OnError(ignore_errors) = "pass"
              /\ idx' = idx + 1
              /\ UNCHANGED <<pc, err, log, data>>
    /\ UNCHANGED <<elements, ignore_errors, options, result, repairVars,
                   resolveVars, parseVars>>

\* line 699: return data
DataProcessingReturn ==
    /\ pc = "elements"
    /\ idx > Len(elements)
    /\ result' = [kind |-> "mapping", text |-> <<>>, data |-> data]
    /\ pc' = "returned"
    /\ UNCHANGED <<err, idx, elements, ignore_errors, options, data, log,
                   repairVars, resolveVars, parseVars>>

\* the matched nodes that carry a contextref and an integer decimals
\* attribute: positive, zero or negative
DecimalsNodes ==
    [contextref : { << <<"c", 1>> >>, << <<"c", 2>> >> },
     decimals : { << <<"2">> >>, << <<"0">> >>, << <<"-", "3">> >> },
     text : Texts]

DecimalsNodeLists == UNION { [1..n -> DecimalsNodes] : n \in 0..MaxNodes }

InitDecimals ==
    /\ pc = "data_processing"
    /\ err = ""
    /\ idx = 0
    /\ elements \in DecimalsNodeLists
    /\ ignore_errors \in {0, 1, 2}
    /\ options \in OptionSets
    /\ data = <<>>
    /\ result = NoResult
    /\ log = <<>>
    /\ IdleRepair
    /\ IdleResolve
    /\ IdleParse

NextExtract ==
    \/ DataProcessingStart
    \/ DataProcessingElement
    \/ DataProcessingReturn

SpecExtract == InitExtract /\ [][NextExtract]_vars

SpecDecimals == InitDecimals /\ [][NextExtract]_vars

----------------------------------------------------------------------------
(* Claims about the extraction (SpecExtract). *)

\* the call has ended: it returned or raised
ExtractEnded == pc \in {"returned", "raised"}

\* contextless = true, valueKind = Number
ContextlessNumber == options = [type |-> "Number", no_context |-> TRUE]

\* the contextful numeric path
ContextfulNumber == options = [type |-> "Number", no_context |-> FALSE]

\* a decimals attribute that is present and an integer
HasIntDecimals(element) ==
    element.decimals # <<>> /\ IsIntLiteral(element.decimals[1])

\* a node with a contextref and numeric text
NumericFact(element) ==
    element.contextref # <<>> /\ IsNumber(element.text)

\* C8: contextless numeric extraction returns the first node's text when it
\* parses as a number and nothing otherwise (an empty mapping counts as
\* nothing), and never raises, under any policy and whatever attributes the
\* nodes lack.
C8_ContextlessNumberNeverRaises ==
    (ExtractEnded /\ ContextlessNumber) =>
        /\ pc = "returned"
        /\ IF Len(elements) > 0 /\ IsNumber(elements[1].text)
           THEN result.kind = "text" /\ result.text = elements[1].text
           ELSE result.kind = "mapping" /\ result.data = <<>>

\* C9: in the contextful numeric path a node with a contextref and numeric
\* text is recorded, as a float when its decimals attribute is a positive
\* integer and as an integer otherwise; an absent decimals attribute counts
\* as 0 and is no extraction failure under any policy.
C9_DecimalsSelectStoredType ==
    ContextfulNumber =>
        /\ (pc = "elements" /\ idx > 1 /\ NumericFact(elements[idx - 1])) =>
              LET element == elements[idx - 1]
                  ctx == element.contextref[1]
              IN  /\ ctx \in DOMAIN data
                  /\ data[ctx].type =
                        IF HasIntDecimals(element)
                               /\ IntOf(element.decimals[1]) > 0
                        THEN "float" ELSE "int"
        /\ (pc = "raised" /\ NumericFact(elements[idx])) =>
              elements[idx].decimals # <<>>
        /\ \A i \in 1..Len(log) : log[i].exc # "KeyError: decimals"

\* the failures C10 names: no contextref, or numeric text with a decimals
\* attribute that is no integer
NamedFailure(element) ==
    \/ element.contextref = <<>>
    \/ /\ IsNumber(element.text)
       /\ element.decimals # <<>>
       /\ ~IsIntLiteral(element.decimals[1])

NamedFailures == { i \in 1..Len(elements) : NamedFailure(elements[i]) }

\* C10: under the strict policy the contextful numeric path is fail-fast and
\* all-or-nothing: the loop never gets past a node that lacks a contextref
\* or has numeric text with malformed decimals; with such a node among the
\* matched ones the call ends raising ValueExtractionError, at that node or
\* before it, and returns no mapping, whatever earlier nodes contributed.
C10_StrictFailFast ==
    (ContextfulNumber /\ ignore_errors = 0 /\ NamedFailures # {}) =>
        /\ pc \in {"elements", "raised"} => idx <= First(NamedFailures)
        /\ pc # "returned"
        /\ result = NoResult
        /\ pc = "raised" => err = "XBRLException"

\* C10 witness: a strict extraction that raised at its second node, which
\* lacks a contextref, after the first node had contributed a value.
C10_Witness ==
    /\ ContextfulNumber
    /\ ignore_errors = 0
    /\ pc = "raised"
    /\ idx = 2
    /\ elements[2].contextref = <<>>
    /\ data # <<>>
    /\ result = NoResult

\* decimals as the contextful path reads it: 0 when the attribute is absent
DecimalsOrZero(element) ==
    IF element.decimals = <<>> THEN 0 ELSE IntOf(element.decimals[1])

\* an extraction failure: no contextref, or numeric text with a decimals
\* attribute that is no integer, or numeric text that is to be stored as an
\* integer and is no integer literal
FailingNode(element) ==
    \/ element.contextref = <<>>
    \/ /\ IsNumber(element.text)
       /\ \/ element.decimals # <<>> /\ ~IsIntLiteral(element.decimals[1])
          \/ /\ element.decimals = <<>> \/ IsIntLiteral(element.decimals[1])
             /\ DecimalsOrZero(element) <= 0
             /\ ~IsIntLiteral(element.text)

\* a node that records a value: it has numeric text and does not fail
RecordingNode(element) == IsNumber(element.text) /\ ~FailingNode(element)

RecordingNodes == { i \in 1..Len(elements) : RecordingNode(elements[i]) }

FailingNodes == { i \in 1..Len(elements) : FailingNode(elements[i]) }

Last(S) == CHOOSE i \in S : \A j \in S : j <= i

\* the value a recording node records
RecordedValue(element) ==
    IF DecimalsOrZero(element) > 0 THEN FloatVal(element.text)
    ELSE IntVal(element.text)

\* the mapping built from the recording nodes in document order: at each
\* context id the value of the last recording node that refers to it
MappingOfRecordingNodes ==
    [ctx \in { elements[i].contextref[1] : i \in RecordingNodes } |->
        RecordedValue(elements[Last({ i \in RecordingNodes :
                                        elements[i].contextref[1] = ctx })])]

\* C11: under the permissive and the logging policy the contextful numeric
\* path never raises; it returns the mapping built from the non-failing
\* nodes in document order, a later node overwriting an earlier one of the
\* same context id, the same under both policies; the logging policy writes
\* one diagnostic per failing node and the permissive policy none.
C11_PermissiveSkipsFailingNodes ==
    (ContextfulNumber /\ ignore_errors \in {1, 2}) =>
        /\ pc # "raised"
        /\ pc = "returned" =>
              /\ result.kind = "mapping"
              /\ result.data = MappingOfRecordingNodes
              /\ Len(log) = IF ignore_errors = 2
                            THEN Cardinality(FailingNodes) ELSE 0

----------------------------------------------------------------------------
(* XBRL.parse_contexts: reading a date *)

\* re.compile('[^\d]+').sub('', text)[:8]
DateDigits(text) ==
    LET ds == SelectSeq(text, IsDigit)
    IN  SubSeq(ds, 1, IF Len(ds) < 8 THEN Len(ds) ELSE 8)

\* the lengths the month directive %m may take at position i of s, in the
\* order the pattern 1[0-2]|0[1-9]|[1-9] tries them
MonthLens(s, i) ==
    (IF /\ i + 1 <= Len(s)
        /\ \/ s[i] = "1" /\ s[i + 1] \in {"0", "1", "2"}
           \/ s[i] = "0" /\ s[i + 1] # "0"
     THEN <<2>> ELSE <<>>)
    \o (IF i <= Len(s) /\ s[i] # "0" THEN <<1>> ELSE <<>>)

\* the lengths the day directive %d may take at position i of s, in the
\* order the pattern 3[01]|[12]\d|0[1-9]|[1-9] tries them
DayLens(s, i) ==
    (IF /\ i + 1 <= Len(s)
        /\ \/ s[i] = "3" /\ s[i + 1] \in {"0", "1"}
           \/ s[i] \in {"1", "2"}
           \/ s[i] = "0" /\ s[i + 1] # "0"
     THEN <<2>> ELSE <<>>)
    \o (IF i <= Len(s) /\ s[i] # "0" THEN <<1>> ELSE <<>>)

\* the first match of the pattern of "%Y%m%d" at the head of s: the lengths
\* of month and day, <<>> when there is none
FormatMatch(s) ==
    IF Len(s) < 4 THEN <<>>
    ELSE LET ms == MonthLens(s, 5)
             ok == { k \in 1..Len(ms) : DayLens(s, 5 + ms[k]) # <<>> }
         IN  IF ok = {} THEN <<>>
             ELSE LET k == CHOOSE k \in ok : \A j \in ok : k <= j
                  IN  <<ms[k], DayLens(s, 5 + ms[k])[1]>>

IsLeap(y) == y % 4 = 0 /\ (y % 100 # 0 \/ y % 400 = 0)

DaysInMonth(y, m) ==
    IF m = 2 THEN (IF IsLeap(y) THEN 29 ELSE 28)
    ELSE IF m \in {4, 6, 9, 11} THEN 30 ELSE 31

RECURSIVE DaysBeforeMonth(_, _)
DaysBeforeMonth(y, m) ==
    IF m = 1 THEN 0 ELSE DaysBeforeMonth(y, m - 1) + DaysInMonth(y, m - 1)

\* date.toordinal(): the day number of a date
ToOrdinal(y, m, d) ==
    365 * (y - 1) + ((y - 1) \div 4) - ((y - 1) \div 100)
        + ((y - 1) \div 400) + DaysBeforeMonth(y, m) + d

\* datetime.datetime.strptime(s, "%Y%m%d"): the datetime read, or the
\* ValueError of a string that does not match, is not used up by the match,
\* or names no day of the calendar
StrpTime(s) ==
    LET f == FormatMatch(s)
    IN  IF f = <<>> \/ 4 + f[1] + f[2] # Len(s)
        THEN [ok |-> FALSE, value |-> DateTime(0)]
        ELSE LET y == DigitsValue(SubSeq(s, 1, 4))
                 m == DigitsValue(SubSeq(s, 5, 4 + f[1]))
                 d == DigitsValue(SubSeq(s, 5 + f[1], Len(s)))
             IN  IF y < 1 \/ d > DaysInMonth(y, m)
                 THEN [ok |-> FALSE, value |-> DateTime(0)]
                 ELSE [ok |-> TRUE, value |-> DateTime(ToOrdinal(y, m, d))]

----------------------------------------------------------------------------
(* XBRL.from_file: the tree and XBRL.parse_contexts *)

\* the texts of the date elements
Jan01 == <<"2", "0", "2", "0", "-", "0", "1", "-", "0", "1">>
Mar31 == <<"2", "0", "2", "0", "-", "0", "3", "-", "3", "1">>
NotADate == <<"n", "/", "a">>

\* a context element: its id attribute, whether it has an entity child and
\* whether that has a segment, the text of its instant element, and its
\* period element with the texts of startdate and enddate; <<>> is absent
ContextTag(id, entity, instant, period) ==
    [id |-> id, entity |-> entity, instant |-> instant, period |-> period]

Period(startdate, enddate) ==
    << [startdate |-> startdate, enddate |-> enddate] >>

\* the context elements the n-th context of a document may be
ContextTagsAt(n) ==
    LET id == << CtxId(n) >>
    IN  { ContextTag(id, "plain", <<Mar31>>, Period(<<>>, <<>>)),
          ContextTag(id, "plain", <<>>, Period(<<Jan01>>, <<Mar31>>)),
          ContextTag(id, "plain", <<>>, Period(<<Mar31>>, <<Jan01>>)),
          ContextTag(id, "segment", <<Mar31>>, Period(<<>>, <<>>)),
          ContextTag(id, "none", <<Mar31>>, Period(<<>>, <<>>)),
          ContextTag(id, "plain", <<>>, Period(<<Jan01>>, <<>>)),
          ContextTag(id, "plain", <<>>, <<>>),
          ContextTag(id, "plain", <<NotADate>>, Period(<<>>, <<>>)),
          ContextTag(id, "plain", <<>>, Period(<<Jan01>>, <<NotADate>>)),
          ContextTag(<<>>, "plain", <<Mar31>>, Period(<<>>, <<>>)) }

ContextTagLists ==
    UNION { { cs \in [1..n -> UNION { ContextTagsAt(i) : i \in 1..n }] :
                \A i \in 1..n : cs[i] \in ContextTagsAt(i) } :
            n \in 0..MaxTags }

\* the concepts of parse_GAAP: the three of lines 248-264, and liabilities
\* for the concepts after them, which are all extracted as it is
GaapConcepts == {"assets", "current_assets", "non_current_assets",
                 "liabilities"}

\* a fact that refers to the n-th context; the document has no context 0
FactNode(n) ==
    [contextref |-> << CtxId(n) >>, decimals |-> << <<"0">> >>,
     text |-> <<"1", "0", "0", "0">>]

\* a node without a contextref attribute and without numeric text
BareNode == [contextref |-> <<>>, decimals |-> <<>>, text |-> <<"a">>]

\* the nodes find_all matches for each concept
FactDocs ==
    { [k \in GaapConcepts |->
          CASE k = "assets" -> a
            [] k = "current_assets" -> c
            [] k = "non_current_assets" -> n
            [] OTHER -> <<>>] :
      a \in { <<>>, <<FactNode(0)>>, <<FactNode(1)>>, <<BareNode>> },
      c \in { <<>>, <<FactNode(1)>> },
      n \in { <<>>, <<FactNode(1)>> } }

NoFacts == [k \in GaapConcepts |-> <<>>]

DeiFields == {"trading_symbol", "company_name", "shares_outstanding",
              "public_float"}

NoDei == [k \in DeiFields |-> <<>>]

\* the nodes find_all matches for each field of parse_DEI
DeiDocs ==
    { NoDei,
      [k \in DeiFields |->
          CASE k = "trading_symbol" -> <<BareNode>>
            [] k = "shares_outstanding" -> <<BareNode>>
            [] OTHER -> <<>>] }

\* the elements the pattern of parse_custom matches: local name and text
CustomDocs ==
    { <<>>,
      << [name |-> "x", text |-> <<"1", "0", "0", "0">>],
         [name |-> "y", text |-> <<"a">>] >> }

\* the trees soup_maker hands to the parse: whether an element is found by
\* line 164 or 166, the context elements, and the matched nodes
Documents ==
    { [root |-> TRUE, contexts |-> cs, facts |-> f, dei |-> d,
       custom |-> c] :
      cs \in ContextTagLists, f \in FactDocs, d \in DeiDocs,
      c \in CustomDocs }
    \cup { [root |-> FALSE, contexts |-> cs, facts |-> NoFacts,
            dei |-> NoDei, custom |-> <<>>] : cs \in ContextTagLists }

InitParse ==
    /\ pc = "parse_contexts"
    /\ err = ""
    /\ idx = 0
    /\ xbrl \in Documents
    /\ ignore_errors \in {0, 1, 2}
    /\ context_ids = <<>>
    /\ gaap_data = <<>>
    /\ dei = <<>>
    /\ custom_data = <<>>
    /\ log = <<>>
    /\ context = [kind |-> "str", name |-> "", days |-> 0]
    /\ end_date = [type |-> "none", day |-> 0]
    /\ ctx_id = <<>>
    /\ gaap_obj = <<>>
    /\ elements = <<>>
    /\ options = [type |-> "Number", no_context |-> FALSE]
    /\ data = <<>>
    /\ result = NoResult
    /\ IdleRepair

\* what the parse leaves alone
parseFrame ==
    <<xbrl, ignore_errors, context, end_date, ctx_id, gaap_obj, elements,
      options, data, result, repairVars>>

\* lines 164-187: the empty check, the lookahead, find_all of the contexts
ParseContextsStart ==
    /\ pc = "parse_contexts"
    /\ \/ /\ ~xbrl.root
          /\ err' = "XBRLException"
          /\ pc' = "raised"
          /\ UNCHANGED idx
       \/ /\ xbrl.root
          /\ xbrl.contexts = <<>>
          /\ err' = "AttributeError"
          /\ pc' = "raised"
          /\ UNCHANGED idx
       \/ /\ xbrl.root
          /\ xbrl.contexts # <<>>
          /\ idx' = 1
          /\ pc' = "context_tags"
          /\ UNCHANGED err
    /\ UNCHANGED <<context_ids, gaap_data, dei, custom_data, log, parseFrame>>

\* context_ids[context_id] = dates
SetItem(d, id, dates) ==
    IF \E i \in 1..Len(d) : d[i].id = id
    THEN [i \in 1..Len(d) |->
             IF d[i].id = id THEN [id |-> id, dates |-> dates] ELSE d[i]]
    ELSE Append(d, [id |-> id, dates |-> dates])

\* the datetime read from the text of a date element
ReadDate(text) == StrpTime(DateDigits(text))

\* lines 190-232: what the loop body does with a context element: it goes
\* on to the next one (skip), enters dates into the catalog (set), or raises
TryContext(tag) ==
    IF tag.entity = "none" THEN [kind |-> "skip"]
    ELSE IF tag.entity = "segment" THEN [kind |-> "skip"]
    ELSE IF tag.id = <<>> THEN [kind |-> "exc", exc |-> "KeyError"]
    ELSE IF tag.instant # <<>>
    THEN IF ReadDate(tag.instant[1]).ok
         THEN [kind |-> "set", id |-> tag.id[1],
               dates |-> << ReadDate(tag.instant[1]).value >>]
         ELSE [kind |-> "exc", exc |-> "ValueError"]
    ELSE IF tag.period = <<>>
    THEN [kind |-> "exc", exc |-> "AttributeError"]
    ELSE LET p == tag.period[1]
         IN  IF p.startdate # <<>> /\ ~ReadDate(p.startdate[1]).ok
             THEN [kind |-> "exc", exc |-> "ValueError"]
             ELSE IF p.enddate # <<>> /\ ~ReadDate(p.enddate[1]).ok
             THEN [kind |-> "exc", exc |-> "ValueError"]
             ELSE IF p.startdate # <<>> /\ p.enddate # <<>>
             THEN [kind |-> "set", id |-> tag.id[1],
                   dates |-> << ReadDate(p.startdate[1]).value,
                                ReadDate(p.enddate[1]).value >>]
             ELSE [kind |-> "skip"]

\* lines 189-234: one context element of the loop; no statement of the
\* body raises the IndexError of line 233, so what is raised goes through
ParseContext ==
    /\ pc = "context_tags"
    /\ idx <= Len(xbrl.contexts)
    /\ LET try == TryContext(xbrl.contexts[idx])
       IN  \/ /\ try.kind = "skip"
              /\ idx' = idx + 1
              /\ UNCHANGED <<pc, err, context_ids>>
           \/ /\ try.kind = "set"
              /\ context_ids' = SetItem(context_ids, try.id, try.dates)
              /\ idx' = idx + 1
              /\ UNCHANGED <<pc, err>>
           \/ /\ try.kind = "exc"
              /\ err' = try.exc
              /\ pc' = "raised"
              /\ UNCHANGED <<idx, context_ids>>
    /\ UNCHANGED <<gaap_data, dei, custom_data, log, parseFrame>>

\* line 236 and line 155: the catalog is returned and kept
ParseContextsReturn ==
    /\ pc = "context_tags"
    /\ idx > Len(xbrl.contexts)
    /\ pc' = "parse_gaap"
    /\ UNCHANGED <<err, idx, context_ids, gaap_data, dei, custom_data, log,
                   parseFrame>>

----------------------------------------------------------------------------
(* XBRL.data_processing as a function of its arguments, for the callers *)

\* the loop of lines 679-697 from element i on
RECURSIVE DataProcessingFrom(_, _, _, _, _)
DataProcessingFrom(els, i, ignore, d, lg) ==
    IF i > Len(els)
    THEN [kind |-> "mapping", text |-> <<>>, data |-> d, log |-> lg]
    ELSE LET try == TryElement(els[i])
         IN  IF try.kind = "store"
             THEN DataProcessingFrom(els, i + 1, ignore,
                                     (try.ctx :> try.val) @@ d, lg)
             ELSE IF try.kind = "skip"
             THEN DataProcessingFrom(els, i + 1, ignore, d, lg)
             ELSE IF OnError(ignore) = "raise"
             THEN [kind |-> "raise", text |-> <<>>, data |-> <<>>,
                   log |-> lg]
             ELSE IF OnError(ignore) = "log"
             THEN DataProcessingFrom(els, i + 1, ignore, d,
                      Append(lg, [exc |-> try.exc, text |-> els[i].text]))
             ELSE DataProcessingFrom(els, i + 1, ignore, d, lg)

\* lines 666-699: what the call returns or raises, and what it logs
DataProcessing(els, ignore, opts) ==
    IF ReturnsFirstText(els, opts)
    THEN [kind |-> "text", text |-> els[1].text, data |-> <<>>,
          log |-> <<>>]
    ELSE DataProcessingFrom(els, 1, ignore, <<>>, <<>>)

\* the function agrees with the steps of SpecExtract
DataProcessingAgrees ==
    LET r == DataProcessing(elements, ignore_errors, options)
    IN  /\ pc = "returned" =>
              /\ r.kind = result.kind
              /\ r.text = result.text
              /\ r.data = result.data
              /\ r.log = log
        /\ pc = "raised" => r.kind = "raise" /\ r.log = log

----------------------------------------------------------------------------
(* XBRL.parse_GAAP, XBRL.parse_DEI, XBRL.parse_custom *)

\* the options of line 666
DefaultOptions == [type |-> "Number", no_context |-> FALSE]

\* the order in which parse_GAAP extracts the concepts
ConceptOrder ==
    <<"assets", "current_assets", "non_current_assets", "liabilities">>

\* lines 246-582: the calls of parse_GAAP from the i-th concept on; gaap is
\* gaap_data so far and lg what was logged so far
RECURSIVE ParseGAAPFrom(_, _, _, _, _)
ParseGAAPFrom(doc, ignore, i, gaap, lg) ==
    IF i > Len(ConceptOrder)
    THEN [kind |-> "return", gaap |-> gaap, log |-> lg, exc |-> ""]
    ELSE LET k == ConceptOrder[i]
             r == DataProcessing(doc.facts[k], ignore, DefaultOptions)
         IN  IF k = "non_current_assets" /\ doc.facts[k] = <<>>
             \* lines 260-261: a dict minus a dict
             THEN [kind |-> "raise", gaap |-> gaap, log |-> lg,
                   exc |-> "TypeError"]
             ELSE IF r.kind = "raise"
             THEN [kind |-> "raise", gaap |-> gaap, log |-> lg \o r.log,
                   exc |-> "XBRLException"]
             ELSE ParseGAAPFrom(doc, ignore, i + 1,
                                (k :> r.data) @@ gaap, lg \o r.log)

\* lines 238-582 and line 156
ParseGAAP ==
    /\ pc = "parse_gaap"
    /\ LET out == ParseGAAPFrom(xbrl, ignore_errors, 1, <<>>, <<>>)
       IN  \/ /\ out.kind = "return"
              /\ gaap_data' = out.gaap
              /\ log' = log \o out.log
              /\ pc' = "parse_dei"
              /\ UNCHANGED err
           \/ /\ out.kind = "raise"
              /\ out.exc = "XBRLException"
              /\ err' = out.exc
              /\ log' = log \o out.log
              /\ pc' = "raised"
              /\ UNCHANGED gaap_data
           \/ /\ out.kind = "raise"
              /\ out.exc = "TypeError"
              /\ err' = out.exc
              /\ log' = log \o out.log
              /\ pc' = "raised"
              /\ UNCHANGED gaap_data
    /\ UNCHANGED <<idx, context_ids, dei, custom_data, parseFrame>>

\* the options parse_DEI passes for a field
DeiOptions(k) ==
    [type |-> IF k \in {"trading_symbol", "company_name"}
              THEN "String" ELSE "Number",
     no_context |-> TRUE]

DeiOrder ==
    <<"trading_symbol", "company_name", "shares_outstanding", "public_float">>

\* lines 591-625: the calls of parse_DEI from the i-th field on
RECURSIVE ParseDEIFrom(_, _, _, _, _)
ParseDEIFrom(doc, ignore, i, obj, lg) ==
    IF i > Len(DeiOrder)
    THEN [kind |-> "return", dei |-> obj, log |-> lg]
    ELSE LET k == DeiOrder[i]
             r == DataProcessing(doc.dei[k], ignore, DeiOptions(k))
         IN  IF r.kind = "raise"
             THEN [kind |-> "raise", dei |-> obj, log |-> lg \o r.log]
             ELSE ParseDEIFrom(doc, ignore, i + 1,
                               (k :> [kind |-> r.kind, text |-> r.text,
                                      data |-> r.data]) @@ obj,
                               lg \o r.log)

\* lines 585-625 and line 157
ParseDEI ==
    /\ pc = "parse_dei"
    /\ LET out == ParseDEIFrom(xbrl, ignore_errors, 1, <<>>, <<>>)
       IN  \/ /\ out.kind = "return"
              /\ dei' = out.dei
              /\ log' = log \o out.log
              /\ pc' = "parse_custom"
              /\ UNCHANGED err
           \/ /\ out.kind = "raise"
              /\ err' = "XBRLException"
              /\ log' = log \o out.log
              /\ pc' = "raised"
              /\ UNCHANGED dei
    /\ UNCHANGED <<idx, context_ids, gaap_data, custom_data, parseFrame>>

\* lines 640-642: the attributes set from the i-th custom element on
RECURSIVE ParseCustomFrom(_, _, _)
ParseCustomFrom(nodes, i, obj) ==
    IF i > Len(nodes) THEN obj
    ELSE ParseCustomFrom(nodes, i + 1,
             IF IsNumber(nodes[i].text)
             THEN (nodes[i].name :> nodes[i].text) @@ obj ELSE obj)

\* lines 627-644 and lines 158-160
ParseCustom ==
    /\ pc = "parse_custom"
    /\ custom_data' = ParseCustomFrom(xbrl.custom, 1, <<>>)
    /\ pc' = "parsed"
    /\ UNCHANGED <<err, idx, context_ids, gaap_data, dei, log, parseFrame>>

NextParse ==
    \/ ParseContextsStart
    \/ ParseContext
    \/ ParseContextsReturn
    \/ ParseGAAP
    \/ ParseDEI
    \/ ParseCustom

SpecParse == InitParse /\ [][NextParse]_vars

----------------------------------------------------------------------------
(* Claims about the parse (SpecParse). *)

\* parse_contexts has returned its catalog
ContextsReturned ==
    \/ pc \in {"parse_gaap", "parse_dei", "parse_custom", "parsed"}
    \/ pc = "raised" /\ idx > Len(xbrl.contexts)

\* parse_contexts has raised
ContextsRaised == pc = "raised" /\ idx <= Len(xbrl.contexts)

\* the ids of the catalog
CatalogIds == { context_ids[i].id : i \in 1..Len(context_ids) }

\* C12: after the parse of a document every context id that is a key of a
\* concept's mapping in gaap_data is a key of the catalog context_ids built
\* from the same document.
C12_FactContextsAreCataloged ==
    pc = "parsed" =>
        \A k \in DOMAIN gaap_data :
            \A cid \in DOMAIN gaap_data[k] : cid \in CatalogIds

\* C13: every entry of the catalog is an instant of one date, or a duration
\* whose start date is not after its end date.
C13_CatalogEntriesWellFormed ==
    \A i \in 1..Len(context_ids) :
        LET dates == context_ids[i].dates
        IN  \/ Len(dates) = 1
            \/ Len(dates) = 2 /\ dates[1].day <= dates[2].day

\* a context element with an entity that has no segment
NonSegment(tag) == tag.entity = "plain"

\* a date element that is present and whose text is no date
Unparsable(field) == field # <<>> /\ ~ReadDate(field[1]).ok

\* a context element one of whose date fields is present and unparsable
HasUnparsableDate(tag) ==
    \/ Unparsable(tag.instant)
    \/ tag.period # <<>> /\ Unparsable(tag.period[1].startdate)
    \/ tag.period # <<>> /\ Unparsable(tag.period[1].enddate)

\* C15: when a non-segment context of a document with a root element has a
\* date field that is present and unparsable, parse_contexts returns no
\* catalog and raises no error but the one of line 234.
C15_UnparsableDateRaisesContextError ==
    (/\ xbrl # <<>>
     /\ xbrl.root
     /\ \E i \in 1..Len(xbrl.contexts) :
           NonSegment(xbrl.contexts[i]) /\ HasUnparsableDate(xbrl.contexts[i]))
        => /\ ~ContextsReturned
           /\ ContextsRaised => err = "XBRLException"

\* a non-segment context element that yields an instant or a start and an
\* end date
Complete(tag) ==
    /\ NonSegment(tag)
    /\ tag.id # <<>>
    /\ ~HasUnparsableDate(tag)
    /\ \/ tag.instant # <<>>
       \/ /\ tag.period # <<>>
          /\ tag.period[1].startdate # <<>>
          /\ tag.period[1].enddate # <<>>

\* a non-segment context element that yields neither
Incomplete(tag) ==
    /\ NonSegment(tag)
    /\ tag.id # <<>>
    /\ ~HasUnparsableDate(tag)
    /\ tag.instant = <<>>
    /\ \/ tag.period = <<>>
       \/ tag.period[1].startdate = <<>>
       \/ tag.period[1].enddate = <<>>

\* C17: in a document with a root element whose non-segment contexts are
\* complete or incomplete, parse_contexts raises no error, leaves the
\* incomplete ones out of the catalog and catalogs every complete one.
C17_IncompleteContextIsDropped ==
    (/\ xbrl # <<>>
     /\ xbrl.root
     /\ xbrl.contexts # <<>>
     /\ \A i \in 1..Len(xbrl.contexts) :
           NonSegment(xbrl.contexts[i]) =>
              Complete(xbrl.contexts[i]) \/ Incomplete(xbrl.contexts[i]))
        => /\ ~ContextsRaised
           /\ ContextsReturned =>
                 CatalogIds = { xbrl.contexts[i].id[1] :
                                  i \in { j \in 1..Len(xbrl.contexts) :
                                            Complete(xbrl.contexts[j]) } }

\* parse_GAAP has returned gaap_data
GaapReturned ==
    \/ pc \in {"parse_dei", "parse_custom", "parsed"}
    \/ pc = "raised" /\ gaap_data # <<>>

\* the difference of two mappings context id -> value, context by context
Minus(a, b) ==
    [cid \in DOMAIN a \cup DOMAIN b |->
        (IF cid \in DOMAIN a THEN a[cid].num ELSE 0)
            - (IF cid \in DOMAIN b THEN b[cid].num ELSE 0)]

\* C20: when the document has no non-current-assets fact and the assets and
\* current-assets facts are extracted, parse_GAAP goes on and sets
\* non_current_assets to the mapping of assets minus current assets.
C20_NonCurrentAssetsFallback ==
    (/\ xbrl # <<>>
     /\ xbrl.facts["non_current_assets"] = <<>>
     /\ ContextsReturned
     /\ pc # "parse_gaap"
     /\ DataProcessing(xbrl.facts["assets"], ignore_errors,
                       DefaultOptions).kind # "raise"
     /\ DataProcessing(xbrl.facts["current_assets"], ignore_errors,
                       DefaultOptions).kind # "raise")
        => /\ GaapReturned
           /\ DOMAIN gaap_data["non_current_assets"] =
                 DOMAIN Minus(gaap_data["assets"],
                              gaap_data["current_assets"])
           /\ \A cid \in DOMAIN gaap_data["non_current_assets"] :
                 gaap_data["non_current_assets"][cid].num =
                     Minus(gaap_data["assets"],
                           gaap_data["current_assets"])[cid]

----------------------------------------------------------------------------
(* XBRL.get_quarterlies, XBRL.get_yearlies *)

\* ord(c), for the characters of the context ids
CodePoint(c) ==
    IF c \in Digits THEN 48 + DigitVal(c)
    ELSE CASE c = "A" -> 65 [] c = "B" -> 66 [] c = "D" -> 68
           [] c = "Q" -> 81 [] c = "T" -> 84 [] c = "X" -> 88
           [] c = "Y" -> 89

\* a < b for strings
RECURSIVE StrLess(_, _)
StrLess(a, b) ==
    IF b = <<>> THEN FALSE
    ELSE IF a = <<>> THEN TRUE
    ELSE IF a[1] # b[1] THEN CodePoint(a[1]) < CodePoint(b[1])
    ELSE StrLess(Tail(a), Tail(b))

\* a list kept in the order it has
Unsorted(ids) == ids

\* sorted(ids)
RECURSIVE Sorted(_)
Sorted(ids) ==
    IF ids = <<>> THEN <<>>
    ELSE LET m == CHOOSE i \in 1..Len(ids) :
                     \A j \in 1..Len(ids) :
                         ~StrLess(ids[j], ids[i]) /\ (ids[j] = ids[i] => i <= j)
         IN  <<ids[m]>>
                 \o Sorted([j \in 1..(Len(ids) - 1) |->
                               IF j < m THEN ids[j] ELSE ids[j + 1]])

\* x.endswith(suffix)
EndsWith(x, suffix) ==
    /\ Len(x) >= Len(suffix)
    /\ SubSeq(x, Len(x) - Len(suffix) + 1, Len(x)) = suffix

\* the keys of context_ids that end with the suffix, in insertion order
KeysEndingWith(catalog, suffix) ==
    LET keys == [i \in 1..Len(catalog) |-> catalog[i].id]
        Ends(x) == EndsWith(x, suffix)
    IN  SelectSeq(keys, Ends)

\* whether [0-9]{4}Q[1-4] matches at position i of cid
QuarterAt(cid, i) ==
    /\ i + 5 <= Len(cid)
    /\ \A j \in i..(i + 3) : cid[j] \in Digits
    /\ cid[i + 4] = "Q"
    /\ cid[i + 5] \in {"1", "2", "3", "4"}

\* whether [0-9]{4} matches at position i of cid
YearAt(cid, i) ==
    i + 3 <= Len(cid) /\ \A j \in i..(i + 3) : cid[j] \in Digits

\* quarter_re.search(cid): <<>> is None, <<label>> the first match
SearchQuarter(cid) ==
    LET at == { i \in 1..Len(cid) : QuarterAt(cid, i) }
    IN  IF at = {} THEN <<>>
        ELSE LET i == CHOOSE i \in at : \A j \in at : i <= j
             IN  << SubSeq(cid, i, i + 5) >>

\* year_re.search(cid): <<>> is None, <<int(year)>> of the first match
SearchYear(cid) ==
    LET at == { i \in 1..Len(cid) : YearAt(cid, i) }
    IN  IF at = {} THEN <<>>
        ELSE LET i == CHOOSE i \in at : \A j \in at : i <= j
             IN  << DigitsValue(SubSeq(cid, i, i + 3)) >>

\* k_data.get(cid): <<>> is None
GetOrNone(k_data, cid) ==
    IF cid \in DOMAIN k_data THEN << k_data[cid] >> ELSE <<>>

\* lines 108-109, 120-121: data[k] after the inner loop from the i-th
\* candidate id on
RECURSIVE PeriodValuesFrom(_, _, _, _, _)
PeriodValuesFrom(k_data, cids, labels, i, d) ==
    IF i > Len(cids) THEN d
    ELSE PeriodValuesFrom(k_data, cids, labels, i + 1,
                          (labels[i] :> GetOrNone(k_data, cids[i])) @@ d)

\* lines 103-111, 115-123: what the call returns or raises; period tells
\* which label is searched in a candidate id
PeriodReport(catalog, gaap, field_names, suffix, period) ==
    LET cids   == Sorted(KeysEndingWith(catalog, suffix))
        labels == [i \in 1..Len(cids) |->
                      IF period = "quarter" THEN SearchQuarter(cids[i])
                      ELSE SearchYear(cids[i])]
    IN  IF \E i \in 1..Len(cids) : labels[i] = <<>>
        THEN [raised |-> TRUE, exc |-> "AttributeError", data |-> <<>>]
        ELSE IF cids # <<>> /\ \E k \in field_names : k \notin DOMAIN gaap
        THEN [raised |-> TRUE, exc |-> "KeyError", data |-> <<>>]
        ELSE [raised |-> FALSE, exc |-> "",
              data |-> [k \in field_names |->
                           IF cids = <<>> THEN <<>>
                           ELSE PeriodValuesFrom(gaap[k], cids,
                                    [i \in 1..Len(cids) |-> labels[i][1]],
                                    1, <<>>)]]

QTD == <<"Q", "T", "D">>
Q4YTD == <<"Q", "4", "Y", "T", "D">>

GetQuarterlies(catalog, gaap, field_names) ==
    PeriodReport(catalog, gaap, field_names, QTD, "quarter")

GetYearlies(catalog, gaap, field_names) ==
    PeriodReport(catalog, gaap, field_names, Q4YTD, "year")

----------------------------------------------------------------------------
(* The queries on a parse result: get_GAAP, get_quarterlies, get_yearlies *)

\* the ids of the contexts of a parse result
QueryIds ==
    { <<"A", "2", "0", "1", "9", "Q", "1", "Q", "T", "D">>,
      <<"B", "2", "0", "1", "9", "Q", "1", "Q", "T", "D">>,
      <<"2", "0", "1", "9", "Q", "4", "Y", "T", "D">>,
      <<"X", "Q", "T", "D">> }

\* the dates of the contexts of a parse result
QueryDates == { <<DateTime(100)>>, <<DateTime(10), DateTime(100)>> }

\* the catalogs of a parse result: at most MaxContexts entries, their ids
\* distinct
QueryCatalogs ==
    UNION { { c \in [1..n -> [id : QueryIds, dates : QueryDates]] :
                \A i, j \in 1..n : c[i].id = c[j].id => i = j } :
            n \in 0..MaxContexts }

\* gaap_data of a parse result
QueryGaapDatas ==
    { [k \in {"assets", "liabilities"} |->
          IF k = "assets"
          THEN (<<"A", "2", "0", "1", "9", "Q", "1", "Q", "T", "D">> :> 5)
                   @@ (<<"B", "2", "0", "1", "9", "Q", "1", "Q", "T", "D">> :> 7)
                   @@ (<<"2", "0", "1", "9", "Q", "4", "Y", "T", "D">> :> 9)
          ELSE <<>>],
      [k \in {"assets", "liabilities"} |->
          IF k = "assets"
          THEN (<<"A", "2", "0", "1", "9", "Q", "1", "Q", "T", "D">> :> 5)
          ELSE <<>>] }

\* the period reports a caller holds before the first call: none
NoReport == <<>>

\* the selectors and end dates a caller passes to get_GAAP
QuerySelectors ==
    { [kind |-> "str", name |-> nm, days |-> 0] :
          nm \in {"quarter", "instant", "bogus"} }

QueryEndDates == { [type |-> "none", day |-> 0], DateTime(100) }

\* the field_names a caller passes
FieldNames == { {"assets"}, {"assets", "liabilities"}, {"bogus"} }

InitQueries ==
    /\ pc = "idle"
    /\ err = ""
    /\ idx = 0
    /\ context_ids \in QueryCatalogs
    /\ gaap_data \in QueryGaapDatas
    /\ dei = ParseDEIFrom([dei |-> NoDei], 1, 1, <<>>, <<>>).dei
    /\ custom_data = ParseCustomFrom(<< [name |-> "x", text |-> <<"1">>] >>,
                                     1, <<>>)
    /\ context = [kind |-> "str", name |-> "", days |-> 0]
    /\ end_date = [type |-> "none", day |-> 0]
    /\ ctx_id = <<>>
    /\ gaap_obj = <<>>
    /\ xbrl = <<>>
    /\ IdleRepair
    /\ IdleExtract

\* no query is running on the parse result
NoCallRunning ==
    pc \in {"idle", "reported", "raised", "returned_quarterlies",
            "returned_yearlies"}

\* what the queries leave alone
queryFrame ==
    <<xbrl, elements, ignore_errors, options, result, log, repairVars>>

\* line 47: a caller calls get_GAAP(context, end_date)
CallGetGAAP ==
    /\ NoCallRunning
    /\ context' \in QuerySelectors
    /\ end_date' \in QueryEndDates
    /\ ctx_id' = <<>>
    /\ gaap_obj' = <<>>
    /\ idx' = 0
    /\ err' = ""
    /\ pc' = "get_gaap"
    /\ UNCHANGED <<context_ids, gaap_data, dei, custom_data, data,
                   queryFrame>>

\* a field's mapping after the get of every candidate id
RECURSIVE AfterGets(_, _)
AfterGets(k_data, cids) ==
    IF cids = <<>> THEN k_data
    ELSE AfterGets(AfterGet(k_data, cids[1]), Tail(cids))

\* lines 107-109, 119-121: gaap_data after the lookups of a period report
LookedUp(gaap, field_names, cids) ==
    [k \in DOMAIN gaap |->
        IF k \in field_names THEN AfterGets(gaap[k], cids) ELSE gaap[k]]

\* lines 102-111: a caller calls get_quarterlies(field_names)
CallGetQuarterlies ==
    /\ NoCallRunning
    /\ \E field_names \in FieldNames :
          LET out == GetQuarterlies(context_ids, gaap_data, field_names)
          IN  /\ data' = out.data
              /\ err' = out.exc
              /\ pc' = IF out.raised THEN "raised"
                       ELSE "returned_quarterlies"
              /\ gaap_data' = IF out.raised THEN gaap_data
                              ELSE LookedUp(gaap_data, field_names,
                                      KeysEndingWith(context_ids, QTD))
    /\ context' = [kind |-> "str", name |-> "", days |-> 0]
    /\ end_date' = [type |-> "none", day |-> 0]
    /\ ctx_id' = <<>>
    /\ gaap_obj' = <<>>
    /\ idx' = 0
    /\ UNCHANGED <<context_ids, dei, custom_data, queryFrame>>

\* lines 114-123: a caller calls get_yearlies(field_names)
CallGetYearlies ==
    /\ NoCallRunning
    /\ \E field_names \in FieldNames :
          LET out == GetYearlies(context_ids, gaap_data, field_names)
          IN  /\ data' = out.data
              /\ err' = out.exc
              /\ pc' = IF out.raised THEN "raised"
                       ELSE "returned_yearlies"
              /\ gaap_data' = IF out.raised THEN gaap_data
                              ELSE LookedUp(gaap_data, field_names,
                                      KeysEndingWith(context_ids, Q4YTD))
    /\ context' = [kind |-> "str", name |-> "", days |-> 0]
    /\ end_date' = [type |-> "none", day |-> 0]
    /\ ctx_id' = <<>>
    /\ gaap_obj' = <<>>
    /\ idx' = 0
    /\ UNCHANGED <<context_ids, dei, custom_data, queryFrame>>

NextQueries ==
    \/ CallGetGAAP
    \/ CallGetQuarterlies
    \/ CallGetYearlies
    \/ GetGAAPStart
    \/ GetGAAPScan
    \/ GetGAAPScanEnd
    \/ GetGAAPNoMatch
    \/ GetGAAPReport

SpecQueries == InitQueries /\ [][NextQueries]_vars

----------------------------------------------------------------------------
(* Claims about the queries (SpecQueries). *)

\* get_GAAP from the i-th entry of the catalog on, as a function: the
\* exception raised or the context id chosen
RECURSIVE ScanFrom(_, _, _, _)
ScanFrom(catalog, i, c, e) ==
    IF i > Len(catalog) THEN [exc |-> "NoContextMatch", cid |-> <<>>]
    ELSE IF InstantMatches(c, catalog[i].dates, e)
    THEN [exc |-> "", cid |-> << catalog[i].id >>]
    ELSE IF CompareRaises(c, catalog[i].dates)
    THEN [exc |-> "TypeError", cid |-> <<>>]
    ELSE IF DurationMatches(c, catalog[i].dates, e)
    THEN [exc |-> "", cid |-> << catalog[i].id >>]
    ELSE ScanFrom(catalog, i + 1, c, e)

\* what get_GAAP(c, e) gives on a parse result: the exception raised, or
\* the report
GetGAAPOutcome(catalog, gaap, c, e) ==
    IF EndDateInvalid(e) \/ SelectorInvalid(c)
    THEN [exc |-> "ValueError", report |-> <<>>]
    ELSE LET r == ScanFrom(catalog, 1, NormContext(c), NormEndDate(e))
         IN  IF r.exc # "" THEN [exc |-> r.exc, report |-> <<>>]
             ELSE [exc |-> "",
                   report |-> << [k \in DOMAIN gaap |->
                                    GetOrZero(gaap[k], r.cid[1])] >>]

\* a call of get_GAAP has ended; the selector of a period report is none
GetGAAPEnded ==
    /\ pc \in {"reported", "raised"}
    /\ context # [kind |-> "str", name |-> "", days |-> 0]

\* C14: no step of a query -- get_GAAP, get_quarterlies, get_yearlies, with
\* any arguments, returning or raising, after any number of earlier
\* queries -- changes context_ids, gaap_data, dei or custom_data; and what a
\* call of get_GAAP gives is a function of these and of its arguments, so a
\* repeated query gives the same outcome.
C14_QueriesLeaveParseResult ==
    /\ [][UNCHANGED <<context_ids, gaap_data, dei, custom_data>>]_vars
    /\ [](GetGAAPEnded =>
            LET out == GetGAAPOutcome(context_ids, gaap_data, context,
                                      end_date)
            IN  /\ err = out.exc
                /\ gaap_obj = out.report
                /\ pc = "raised" <=> out.exc # "")

\* C14 witness: a period report was returned, and a later call of get_GAAP
\* found a context id of which some concept has no value, and reported.
C14_Witness ==
    /\ pc = "reported"
    /\ data # NoReport
    /\ \E k \in DOMAIN gaap_data : ctx_id[1] \notin DOMAIN gaap_data[k]

\* the candidate ids of get_quarterlies
QuarterIds ==
    { context_ids[i].id : i \in { j \in 1..Len(context_ids) :
                                    EndsWith(context_ids[j].id, QTD) } }

\* the candidate ids that carry a label
IdsOfLabel(label) == { cid \in QuarterIds : SearchQuarter(cid) = <<label>> }

\* the greatest string of a set
Greatest(S) == CHOOSE x \in S : \A y \in S : ~StrLess(x, y)

\* C19: when get_quarterlies returns, the mapping of every requested field
\* has as keys exactly the quarter labels of the context ids that end with
\* "QTD", and at each label the field's value at the greatest, in string
\* order, of the ids that carry the label (None when the field has no value
\* there).
C19_QuarterliesByGreatestId ==
    pc = "returned_quarterlies" =>
        \A k \in DOMAIN data :
            /\ DOMAIN data[k] =
                  { SearchQuarter(cid)[1] : cid \in QuarterIds }
            /\ \A label \in DOMAIN data[k] :
                  data[k][label] =
                      GetOrNone(gaap_data[k], Greatest(IdsOfLabel(label)))

\* C19 witness: two ids of the same label, the greater one entered first,
\* and the report holds the value at the greater one.
C19_Witness ==
    /\ pc = "returned_quarterlies"
    /\ Len(context_ids) = 2
    /\ StrLess(context_ids[2].id, context_ids[1].id)
    /\ SearchQuarter(context_ids[1].id) = SearchQuarter(context_ids[2].id)
    /\ "assets" \in DOMAIN data
    /\ context_ids[1].id \in DOMAIN gaap_data["assets"]
    /\ context_ids[2].id \in DOMAIN gaap_data["assets"]
    /\ gaap_data["assets"][context_ids[2].id]
           # gaap_data["assets"][context_ids[1].id]
    /\ \E label \in DOMAIN data["assets"] :
          data["assets"][label] = << gaap_data["assets"][context_ids[1].id] >>

----------------------------------------------------------------------------
(* Claims about the decimals attribute (SpecDecimals). *)

\* the number of digits of s after the decimal point
FractionDigits(s) ==
    Cardinality({ i \in 1..Len(s) :
                    s[i] \in Digits /\ \E j \in 1..(i - 1) : s[j] = "." })

\* the number written in a numeric text, as a fraction num / 10^scale
TextNumber(s) ==
    LET n == DigitsValue(SelectSeq(s, IsDigit))
    IN  [num |-> IF s[1] = "-" THEN 0 - n ELSE n,
         scale |-> FractionDigits(s)]

RECURSIVE Pow10(_)
Pow10(n) == IF n = 0 THEN 1 ELSE 10 * Pow10(n - 1)

\* a stored value is numerically equal to a number
NumEqual(v, t) == v.num * Pow10(t.scale) = t.num * Pow10(v.scale)

\* the loop is about to process a node with a contextref, numeric text and
\* an integer decimals attribute, in the contextful numeric path
AtDecimalsNode ==
    /\ ContextfulNumber
    /\ pc = "elements"
    /\ idx <= Len(elements)
    /\ NumericFact(elements[idx])
    /\ HasIntDecimals(elements[idx])

\* the node is recorded with the number written in its text
RecordsTextNumber ==
    LET element == elements[idx]
        ctx     == element.contextref[1]
    IN  /\ pc' = "elements"
        /\ idx' = idx + 1
        /\ ctx \in DOMAIN data'
        /\ NumEqual(data'[ctx], TextNumber(element.text))
        /\ \A c \in DOMAIN data' \ {ctx} : c \in DOMAIN data /\ data'[c] = data[c]

\* the node is an extraction failure: nothing is recorded, and the call
\* raises under the strict policy and goes on under the others
RejectsNode ==
    /\ data' = data
    /\ IF ignore_errors = 0
       THEN pc' = "raised" /\ err' = "XBRLException"
       ELSE pc' = "elements" /\ idx' = idx + 1

\* C18 as stated: the decimals attribute never changes or rejects the
\* value: every node with a contextref, numeric text and an integer decimals
\* attribute is recorded with the number written in its text.
C18_DecimalsNeverRejects ==
    [][AtDecimalsNode => RecordsTextNumber]_vars

\* C18 amended: the decimals attribute never scales or rounds a recorded
\* value; a node with a contextref, numeric text and an integer decimals
\* attribute is recorded with the number written in its text, as a float
\* when decimals is positive and as an integer when decimals is zero or
\* negative and the text is an integer literal; when decimals is zero or
\* negative and the text is no integer literal the node is an extraction
\* failure and nothing is recorded for it.
C18_DecimalsSelectTypeOrReject ==
    [][AtDecimalsNode =>
          LET element == elements[idx]
              ctx     == element.contextref[1]
          IN  IF IntOf(element.decimals[1]) > 0
              THEN RecordsTextNumber /\ data'[ctx].type = "float"
              ELSE IF IsIntLiteral(element.text)
              THEN RecordsTextNumber /\ data'[ctx].type = "int"
              ELSE RejectsNode]_vars

\* C18 witness: a text with a fractional part was recorded as a float under
\* positive decimals, and a node of negative decimals was recorded next.
C18_Witness ==
    /\ ContextfulNumber
    /\ pc = "elements"
    /\ idx = 3
    /\ elements[1].text = <<"1", "2", ".", "5">>
    /\ elements[1].decimals = << <<"2">> >>
    /\ elements[2].decimals = << <<"-", "3">> >>
    /\ elements[1].contextref # elements[2].contextref
    /\ DOMAIN data = { elements[1].contextref[1], elements[2].contextref[1] }
    /\ data[elements[1].contextref[1]].type = "float"
    /\ data[elements[2].contextref[1]].type = "int"

=============================================================================
